---- MODULE Spec2Model ----
(***************************************************************************)
(* Vacation tracking service (aboubakar14/worklife-test).                  *)
(*                                                                         *)
(* The state is the relational store (the employee table and the vacation  *)
(* table) plus `last`, a history variable holding the most recent service  *)
(* call: its arguments, the list the range query returned to it, the       *)
(* value it returned and how it ended.  Every action is one whole call of  *)
(* a method of _VacationService / _EmployeeService, including every        *)
(* repository call it makes.                                               *)
(*                                                                         *)
(* SpecCommits runs two requests concurrently, one committed statement at  *)
(* a time: `workers` holds the position of each request in its method and  *)
(* what it has read, `base` the vacation table and the next id when the    *)
(* first of them started.  The other specifications leave both as they     *)
(* are.                                                                    *)
(***************************************************************************)
EXTENDS Integers, Sequences, FiniteSets

VARIABLES employees, vacations, nextId, last, workers, base

vars == <<employees, vacations, nextId, last, workers, base>>

(* ---------------------------------------------------------------------- *)
(* Bounds of the model.                                                   *)
(* ---------------------------------------------------------------------- *)
\* calendar days are 1..MaxDay
MaxDay == 3
\* at most MaxEmployees employee rows are ever created
MaxEmployees == 2
\* at most MaxVacations vacation rows are ever created (ids are never reused)
MaxVacations == 2
\* the bounds of SpecMerge: one owner, more rows
MergeEmployees == 1
MergeVacations == 3
\* SpecCommits: rows created before the two concurrent requests start
CommitBase == 1

(* ---------------------------------------------------------------------- *)
(* Values.                                                                *)
(* ---------------------------------------------------------------------- *)
\* Python's None: an Optional field of VacationUpdate that was not supplied
None == -1

\* type: Literal[0, 1]  (0 = Unpaid, 1 = Paid)
VacationTypes == {0, 1}

Days == 1..MaxDay


min(a, b) == IF a <= b THEN a ELSE b

max(a, b) == IF a >= b THEN a ELSE b

\* a row of the vacation table
VacationModel(id, employee_id, type, start_date, end_date) ==
    [id |-> id, employee_id |-> employee_id, type |-> type,
     start_date |-> start_date, end_date |-> end_date]

(* ---------------------------------------------------------------------- *)
(* Request schemas (pydantic validation happens when the object is built). *)
(* ---------------------------------------------------------------------- *)
\* VacationBase: all three fields required; validate_dates rejects end < start
VacationBase(type, start_date, end_date) ==
    /\ type \in VacationTypes
    /\ start_date \in Days
    /\ end_date \in Days
    /\ ~(end_date < start_date)

\* VacationUpdate without the validate_dates check
VacationUpdate_unvalidated(type, start_date, end_date) ==
    /\ type \in VacationTypes \cup {-1}
    /\ start_date \in Days \cup {-1}
    /\ end_date \in Days \cup {-1}

\* VacationUpdate: every field optional (None when not supplied);
\* validate_dates rejects end < start only when both are supplied
VacationUpdate(type, start_date, end_date) ==
    /\ type \in VacationTypes \cup {None}
    /\ start_date \in Days \cup {None}
    /\ end_date \in Days \cup {None}
    /\ ~(start_date # None /\ end_date # None /\ end_date < start_date)

(* ---------------------------------------------------------------------- *)
(* Repositories.                                                          *)
(* ---------------------------------------------------------------------- *)
\* EmployeeRepository.get(session, id): the employee row or nothing
EmployeeRepository_get(emps, id) == {e \in emps : e = id}

\* VacationRepository.get(session, id): the vacation row or nothing
VacationRepository_get(vacs, id) == {v \in vacs : v.id = id}

\* _VacationRepository.get_by_id: first row with that id, or nothing
get_by_id(vacs, vacation_id) == {v \in vacs : v.id = vacation_id}

\* Mergeable with the type filter left out
Mergeable_any_type(v, employee_id, vacation_type, start_date, end_date) ==
    /\ v.employee_id = employee_id
    /\ \/ (v.start_date <= end_date /\ v.end_date >= start_date)
       \/ (v.start_date >= start_date /\ v.start_date <= end_date)
       \/ v.end_date = start_date - 1
       \/ v.start_date = end_date + 1

\* Mergeable with contiguity taken as two days instead of one
Mergeable_two_days(v, employee_id, vacation_type, start_date, end_date) ==
    /\ v.employee_id = employee_id
    /\ v.type = vacation_type
    /\ \/ (v.start_date <= end_date /\ v.end_date >= start_date)
       \/ (v.start_date >= start_date /\ v.start_date <= end_date)
       \/ v.end_date = start_date - 2
       \/ v.start_date = end_date + 2

\* Mergeable without the clause for a row that starts the day after end_date
Mergeable_no_right_adjacency(v, employee_id, vacation_type, start_date, end_date) ==
    /\ v.employee_id = employee_id
    /\ v.type = vacation_type
    /\ \/ (v.start_date <= end_date /\ v.end_date >= start_date)
       \/ (v.start_date >= start_date /\ v.start_date <= end_date)
       \/ v.end_date = start_date - 1

\* the filter of get_overlapping_or_contiguous, clause by clause
Mergeable(v, employee_id, vacation_type, start_date, end_date) ==
    /\ v.employee_id = employee_id
    /\ v.type = vacation_type
    /\ \/ (v.start_date <= end_date /\ v.end_date >= start_date)
       \/ (v.start_date >= start_date /\ v.start_date <= end_date)
       \/ v.end_date = start_date - 1
       \/ v.start_date = end_date + 1

\* .order_by(start_date): every listing of S in ascending start_date; rows with
\* equal start_date come in an order the database chooses
order_by(S) ==
    {q \in [1..Cardinality(S) -> S] :
        /\ \A i, j \in 1..Cardinality(S) : i # j => q[i] # q[j]
        /\ \A i, j \in 1..Cardinality(S) : i < j => q[i].start_date <= q[j].start_date}

\* start_date - timedelta(days=1) / end_date + timedelta(days=1) raise
\* TypeError when the date is None, before any query is sent
QueryRaises(start_date, end_date) == start_date = None \/ end_date = None

\* _VacationRepository.get_overlapping_or_contiguous: the lists it may return
get_overlapping_or_contiguous(vacs, employee_id, vacation_type, start_date, end_date) ==
    order_by({v \in vacs : Mergeable(v, employee_id, vacation_type, start_date, end_date)})

\* _VacationRepository.create: add a row with a fresh id, commit
create(vacs, id, type, start_date, end_date, employee_id) ==
    vacs \cup {VacationModel(id, employee_id, type, start_date, end_date)}

\* delete that empties the table when the row exists (no filter on the id)
delete_unfiltered(vacs, vacation_id) ==
    IF {v \in vacs : v.id = vacation_id} # {} THEN {} ELSE vacs

\* _VacationRepository.delete: remove the row if it exists, commit
delete(vacs, vacation_id) ==
    IF get_by_id(vacs, vacation_id) # {}
    THEN vacs \ get_by_id(vacs, vacation_id)
    ELSE vacs

\* what _VacationRepository.delete returns: the deleted row, or nothing (None)
delete_returns(vacs, vacation_id) == get_by_id(vacs, vacation_id)

\* setattr for every key of obj_in (a key is absent when its value is None)
SetAttrs(v, obj_in) ==
    [v EXCEPT !.type = IF obj_in.type # None THEN obj_in.type ELSE @,
              !.start_date = IF obj_in.start_date # None THEN obj_in.start_date ELSE @,
              !.end_date = IF obj_in.end_date # None THEN obj_in.end_date ELSE @]

\* patch that sets the attributes on every row of the table
patch_every_row(vacs, vacation_id, obj_in) ==
    IF {v \in vacs : v.id = vacation_id} # {}
    THEN {[v EXCEPT !.type = IF obj_in.type # -1 THEN obj_in.type ELSE @,
                    !.start_date = IF obj_in.start_date # -1 THEN obj_in.start_date ELSE @,
                    !.end_date = IF obj_in.end_date # -1 THEN obj_in.end_date ELSE @]
          : v \in vacs}
    ELSE vacs

\* _VacationRepository.patch: update the row if it exists, commit
patch(vacs, vacation_id, obj_in) ==
    IF get_by_id(vacs, vacation_id) # {}
    THEN {IF v.id = vacation_id THEN SetAttrs(v, obj_in) ELSE v : v \in vacs}
    ELSE vacs

(* ---------------------------------------------------------------------- *)
(* _VacationService helpers.                                              *)
(* ---------------------------------------------------------------------- *)
\* __get_employee that never raises
get_employee_unchecked(emps, employee_id) == TRUE

\* __get_employee: TRUE when the employee is found (otherwise ValueError)
get_employee(emps, employee_id) == EmployeeRepository_get(emps, employee_id) # {}

\* employee.vacations: the rows whose foreign key is the employee
employee_vacations(vacs, employee_id) == {v \in vacs : v.employee_id = employee_id}

\* the lookup of the vacation made in the whole table, not in employee.vacations
find_vacation_any_owner(vacs, employee_id, vacation_id) ==
    {v \in vacs : v.id = vacation_id}

\* [vacation for vacation in employee.vacations if vacation.id == vacation_id]
find_vacation(vacs, employee_id, vacation_id) ==
    {v \in employee_vacations(vacs, employee_id) : v.id = vacation_id}

\* new_start = min(vacation_data.start_date, existing_vacations[0].start_date)
new_start(start_date, existing_vacations) ==
    min(start_date, existing_vacations[1].start_date)

\* new_end taken from the first row of the list instead of the last
new_end_of_first(end_date, existing_vacations) ==
    IF end_date >= existing_vacations[1].end_date
    THEN end_date ELSE existing_vacations[1].end_date

\* new_end = max(vacation_data.end_date, existing_vacations[-1].end_date)
new_end(end_date, existing_vacations) ==
    max(end_date, existing_vacations[Len(existing_vacations)].end_date)

\* for vac in existing_vacations: VacationRepository.delete(session, vac.id)
RECURSIVE delete_each(_, _)
delete_each(vacs, existing_vacations) ==
    IF existing_vacations = <<>> THEN vacs
    ELSE delete_each(delete(vacs, Head(existing_vacations).id), Tail(existing_vacations))

\* the record of a call: what was asked, what the query gave, what came back
Call(op, status, employee_id, vacation_id, type, start_date, end_date, M, ret) ==
    [op |-> op, status |-> status, employee_id |-> employee_id,
     vacation_id |-> vacation_id, type |-> type, start_date |-> start_date,
     end_date |-> end_date, M |-> M, ret |-> ret]

\* the record of a call that raised: the operation, the exception and the ids
\* it addressed
Raised(op, status, employee_id, vacation_id) ==
    Call(op, status, employee_id, vacation_id, None, None, None, <<>>, {})

(* ---------------------------------------------------------------------- *)
(* Initial state: an empty database.                                      *)
(* ---------------------------------------------------------------------- *)
\* the two concurrent requests of SpecCommits
Workers == {"w1", "w2"}

\* a request: where it is in its method (pc), its arguments, the list it read,
\* the index i of the next row of the list to delete, and whether its session
\* has committed since it loaded the list
Worker(pc, op, status, employee_id, vacation_id, type, start_date, end_date, M, i, committed) ==
    [pc |-> pc, op |-> op, status |-> status, employee_id |-> employee_id,
     vacation_id |-> vacation_id, type |-> type, start_date |-> start_date,
     end_date |-> end_date, M |-> M, i |-> i, committed |-> committed]

\* a request that has not arrived yet
IdleWorker ==
    Worker("idle", "none", "ok", None, None, None, None, None, <<>>, 0, FALSE)

\* a request that has returned or raised
Finished(r, status) ==
    [r EXCEPT !.pc = "done", !.status = status, !.M = <<>>, !.i = 0,
              !.committed = FALSE]

Init ==
    /\ employees = {}
    /\ vacations = {}
    /\ nextId = 1
    /\ last = Call("none", "ok", None, None, None, None, None, <<>>, {})
    /\ workers = [w \in Workers |-> IdleWorker]
    /\ base = [vacations |-> {}, nextId |-> 1]

(* ---------------------------------------------------------------------- *)
(* Operations.                                                            *)
(* ---------------------------------------------------------------------- *)
\* _EmployeeService.create_employee: a new employee row with a fresh id
create_employee ==
    /\ employees' = employees \cup {Cardinality(employees) + 1}
    /\ last' = Call("create_employee", "ok", Cardinality(employees) + 1, None,
                    None, None, None, <<>>, {})
    /\ UNCHANGED <<vacations, nextId>>

\* _VacationService.create_vacation
create_vacation(employee_id, type, start_date, end_date) ==
    /\ VacationBase(type, start_date, end_date)
    /\ IF ~get_employee(employees, employee_id)
       THEN /\ last' = Raised("create_vacation", "Employee not found", employee_id, None)
            /\ UNCHANGED <<employees, vacations, nextId>>
       ELSE \E existing_vacations \in
                get_overlapping_or_contiguous(vacations, employee_id, type,
                                              start_date, end_date) :
            LET s == IF existing_vacations # <<>>
                     THEN new_start(start_date, existing_vacations) ELSE start_date
                e == IF existing_vacations # <<>>
                     THEN new_end(end_date, existing_vacations) ELSE end_date
                kept == IF existing_vacations # <<>>
                        THEN delete_each(vacations, existing_vacations) ELSE vacations
            IN  /\ VacationBase(type, s, e)
                /\ vacations' = create(kept, nextId, type, s, e, employee_id)
                /\ nextId' = nextId + 1
                /\ last' = Call("create_vacation", "ok", employee_id, None, type,
                                start_date, end_date, existing_vacations,
                                get_by_id(vacations', nextId))
                /\ UNCHANGED employees

\* _VacationService.get_vacations_by_employee_id
get_vacations_by_employee_id(employee_id) ==
    /\ IF ~get_employee(employees, employee_id)
       THEN last' = Raised("get_vacations_by_employee_id", "Employee not found",
                           employee_id, None)
       ELSE last' = Call("get_vacations_by_employee_id", "ok", employee_id, None,
                         None, None, None, <<>>,
                         employee_vacations(vacations, employee_id))
    /\ UNCHANGED <<employees, vacations, nextId>>

\* _VacationService.update_vacation
update_vacation(employee_id, vacation_id, type, start_date, end_date) ==
    /\ VacationUpdate(type, start_date, end_date)
    /\ UNCHANGED <<employees, nextId>>
    /\ IF ~get_employee(employees, employee_id)
       THEN /\ last' = Raised("update_vacation", "Employee not found", employee_id, vacation_id)
            /\ UNCHANGED vacations
       ELSE IF find_vacation(vacations, employee_id, vacation_id) = {}
       THEN /\ last' = Raised("update_vacation", "Vacation not found", employee_id, vacation_id)
            /\ UNCHANGED vacations
       ELSE IF QueryRaises(start_date, end_date)
       THEN /\ last' = Raised("update_vacation", "TypeError", employee_id, vacation_id)
            /\ UNCHANGED vacations
       ELSE \E existing_vacations \in
                get_overlapping_or_contiguous(vacations, employee_id, type,
                                              start_date, end_date) :
            LET update_data ==
                    IF existing_vacations # <<>>
                    THEN [type |-> type,
                          start_date |-> new_start(start_date, existing_vacations),
                          end_date |-> new_end(end_date, existing_vacations)]
                    ELSE [type |-> type, start_date |-> start_date,
                          end_date |-> end_date]
                kept == IF existing_vacations # <<>>
                        THEN delete_each(vacations, existing_vacations) ELSE vacations
            IN  /\ vacations' = patch(kept, vacation_id, update_data)
                /\ last' = Call("update_vacation", "ok", employee_id, vacation_id,
                                type, start_date, end_date, existing_vacations,
                                get_by_id(vacations', vacation_id))

\* _VacationService.delete_vacation
delete_vacation(employee_id, vacation_id) ==
    /\ UNCHANGED <<employees, nextId>>
    /\ IF ~get_employee(employees, employee_id)
       THEN /\ last' = Raised("delete_vacation", "Employee not found", employee_id, vacation_id)
            /\ UNCHANGED vacations
       ELSE IF VacationRepository_get(vacations, vacation_id) = {}
       THEN /\ last' = Raised("delete_vacation", "Vacation not found", employee_id, vacation_id)
            /\ UNCHANGED vacations
       ELSE /\ vacations' = delete(vacations, vacation_id)
            /\ last' = Call("delete_vacation", "ok", employee_id, vacation_id,
                            None, None, None, <<>>, {})

\* _VacationRepository.delete called on the store directly
repository_delete(vacation_id) ==
    /\ vacations' = delete(vacations, vacation_id)
    /\ last' = Call("delete", "ok", None, vacation_id, None, None, None, <<>>,
                    delete_returns(vacations, vacation_id))
    /\ UNCHANGED <<employees, nextId>>

\* the calls a client may make while at most maxE employees and maxV vacation
\* rows have been created; ids of rows not created yet are unknown ids
Calls(maxE, maxV) ==
    \/ /\ Cardinality(employees) < maxE
       /\ create_employee
       /\ UNCHANGED <<workers, base>>
    \/ /\ nextId <= maxV
       /\ \E employee_id \in 1..maxE, type \in VacationTypes,
             start_date \in Days, end_date \in Days :
             create_vacation(employee_id, type, start_date, end_date)
       /\ UNCHANGED <<workers, base>>
    \/ /\ \E employee_id \in 1..maxE :
             get_vacations_by_employee_id(employee_id)
       /\ UNCHANGED <<workers, base>>
    \/ /\ \E employee_id \in 1..maxE, vacation_id \in 1..maxV,
             type \in VacationTypes \cup {None},
             start_date \in Days \cup {None}, end_date \in Days \cup {None} :
             update_vacation(employee_id, vacation_id, type, start_date, end_date)
       /\ UNCHANGED <<workers, base>>
    \/ /\ \E employee_id \in 1..maxE, vacation_id \in 1..maxV :
             delete_vacation(employee_id, vacation_id)
       /\ UNCHANGED <<workers, base>>

Next == Calls(MaxEmployees, MaxVacations)

Spec == Init /\ [][Next]_vars

NextMerge == Calls(MergeEmployees, MergeVacations)

SpecMerge == Init /\ [][NextMerge]_vars

\* the service calls, and the store's delete called directly
NextStore ==
    \/ Calls(MaxEmployees, MaxVacations)
    \/ /\ \E vacation_id \in 1..MaxVacations : repository_delete(vacation_id)
       /\ UNCHANGED <<workers, base>>

SpecStore == Init /\ [][NextStore]_vars

(* ---------------------------------------------------------------------- *)
(* Two concurrent requests, one repository call at a time.  Every          *)
(* repository call that writes ends with its own session.commit(), so the  *)
(* table after each call is a committed state that other sessions read.    *)
(* ---------------------------------------------------------------------- *)
\* no request has arrived yet
AllIdle == \A w \in Workers : workers[w].pc = "idle"

\* both requests have returned or raised
AllDone == \A w \in Workers : workers[w].pc = "done"

\* what the concurrent requests leave in `last`: they record in `workers`
NoCall == Call("none", "ok", None, None, None, None, None, <<>>, {})

\* create_vacation up to its query: the request body is validated and the
\* employee is looked up
begin_create_vacation(w, employee_id, type, start_date, end_date) ==
    /\ workers[w].pc = "idle"
    /\ VacationBase(type, start_date, end_date)
    /\ LET r == Worker("query", "create_vacation", "ok", employee_id, None, type,
                       start_date, end_date, <<>>, 0, FALSE)
       IN  workers' = [workers EXCEPT ![w] =
                          IF ~get_employee(employees, employee_id)
                          THEN Finished(r, "Employee not found")
                          ELSE r]
    /\ base' = IF AllIdle THEN [vacations |-> vacations, nextId |-> nextId] ELSE base
    /\ last' = NoCall
    /\ UNCHANGED <<employees, vacations, nextId>>

\* update_vacation up to its query: validation, the employee, then the lookup
\* of the vacation in employee.vacations
begin_update_vacation(w, employee_id, vacation_id, type, start_date, end_date) ==
    /\ workers[w].pc = "idle"
    /\ VacationUpdate(type, start_date, end_date)
    /\ LET r == Worker("query", "update_vacation", "ok", employee_id, vacation_id,
                       type, start_date, end_date, <<>>, 0, FALSE)
       IN  workers' = [workers EXCEPT ![w] =
                          IF ~get_employee(employees, employee_id)
                          THEN Finished(r, "Employee not found")
                          ELSE IF find_vacation(vacations, employee_id, vacation_id) = {}
                          THEN Finished(r, "Vacation not found")
                          ELSE r]
    /\ base' = IF AllIdle THEN [vacations |-> vacations, nextId |-> nextId] ELSE base
    /\ last' = NoCall
    /\ UNCHANGED <<employees, vacations, nextId>>

\* the call of get_overlapping_or_contiguous: the request reads the committed
\* table and keeps the list; an empty list sends it to the plain write
query(w) ==
    /\ workers[w].pc = "query"
    /\ LET r == workers[w]
       IN  IF QueryRaises(r.start_date, r.end_date)
           THEN workers' = [workers EXCEPT ![w] = Finished(r, "TypeError")]
           ELSE \E existing_vacations \in
                    get_overlapping_or_contiguous(vacations, r.employee_id, r.type,
                                                  r.start_date, r.end_date) :
                    workers' = [workers EXCEPT ![w] =
                        [r EXCEPT !.pc = IF existing_vacations # <<>>
                                         THEN "delete" ELSE "write",
                                  !.M = existing_vacations,
                                  !.i = 1]]
    /\ UNCHANGED <<employees, vacations, nextId, last, base>>

\* what reading vac.id may do: after a commit of this session the loaded rows
\* are expired if the session expires on commit, and reading an expired row
\* that another session has deleted raises; otherwise the id is read
vac_id_outcomes(vacs, r) ==
    IF r.committed /\ get_by_id(vacs, r.M[r.i].id) = {}
    THEN {"ok", "ObjectDeletedError"}
    ELSE {"ok"}

\* one turn of `for vac in existing_vacations: VacationRepository.delete(...)`:
\* the row is deleted and the deletion committed
delete_next(w) ==
    /\ workers[w].pc = "delete"
    /\ LET r == workers[w]
       IN  \E outcome \in vac_id_outcomes(vacations, r) :
               IF outcome = "ObjectDeletedError"
               THEN /\ workers' = [workers EXCEPT ![w] = Finished(r, outcome)]
                    /\ UNCHANGED vacations
               ELSE /\ vacations' = delete(vacations, r.M[r.i].id)
                    /\ workers' = [workers EXCEPT ![w] =
                          [r EXCEPT !.pc = IF r.i = Len(r.M) THEN "write" ELSE "delete",
                                    !.i = r.i + 1,
                                    !.committed =
                                        r.committed \/ get_by_id(vacations, r.M[r.i].id) # {}]]
    /\ UNCHANGED <<employees, nextId, last, base>>

\* the last repository call of the request: create_vacation creates the row,
\* update_vacation patches its record; with a non-empty list the range is the
\* one computed from the list as it was read
write(w) ==
    /\ workers[w].pc = "write"
    /\ LET r == workers[w]
           s == IF r.M # <<>> THEN new_start(r.start_date, r.M) ELSE r.start_date
           e == IF r.M # <<>> THEN new_end(r.end_date, r.M) ELSE r.end_date
       IN  IF r.op = "create_vacation"
           THEN /\ vacations' = create(vacations, nextId, r.type, s, e, r.employee_id)
                /\ nextId' = nextId + 1
           ELSE /\ vacations' = patch(vacations, r.vacation_id,
                                      [type |-> r.type, start_date |-> s, end_date |-> e])
                /\ UNCHANGED nextId
    /\ workers' = [workers EXCEPT ![w] = Finished(workers[w], "ok")]
    /\ UNCHANGED <<employees, last, base>>

\* sequential calls fill the database, then the two requests arrive and run
\* interleaved in every order
NextCommits ==
    \/ /\ AllIdle
       /\ Calls(MergeEmployees, CommitBase)
    \/ \E w \in Workers, employee_id \in 1..MergeEmployees, type \in VacationTypes,
          start_date \in Days, end_date \in Days :
          begin_create_vacation(w, employee_id, type, start_date, end_date)
    \/ \E w \in Workers, employee_id \in 1..MergeEmployees,
          vacation_id \in 1..CommitBase, type \in VacationTypes \cup {None},
          start_date \in Days \cup {None}, end_date \in Days \cup {None} :
          begin_update_vacation(w, employee_id, vacation_id, type, start_date, end_date)
    \/ \E w \in Workers : query(w)
    \/ \E w \in Workers : delete_next(w)
    \/ \E w \in Workers : write(w)

SpecCommits == Init /\ [][NextCommits]_vars

(* ---------------------------------------------------------------------- *)
(* Vocabulary of the properties (specification section 4.1).              *)
(* ---------------------------------------------------------------------- *)
\* [a1,a2] and [b1,b2] overlap
Overlaps(a1, a2, b1, b2) == a1 <= b2 /\ a2 >= b1

\* [a1,a2] and [b1,b2] are exactly one day apart
OneDayApart(a1, a2, b1, b2) == b2 = a1 - 1 \/ a2 = b1 - 1

\* the stored intervals of (employee_id, type) that overlap [start_date, end_date]
\* or are one day apart from it
MergeableSet(vacs, employee_id, type, start_date, end_date) ==
    {v \in vacs :
        /\ v.employee_id = employee_id
        /\ v.type = type
        /\ \/ Overlaps(v.start_date, v.end_date, start_date, end_date)
           \/ OneDayApart(v.start_date, v.end_date, start_date, end_date)}

Range(q) == {q[i] : i \in 1..Len(q)}

MinOf(S) == CHOOSE x \in S : \A y \in S : x <= y

MaxOf(S) == CHOOSE x \in S : \A y \in S : x >= y

Ids(vacs) == {v.id : v \in vacs}

Completed(call, op) == call.op = op /\ call.status = "ok"

(* ---------------------------------------------------------------------- *)
(* C1                                                                     *)
(* ---------------------------------------------------------------------- *)
\* C1: in every state reached by create_vacation, update_vacation (fully or
\* partially supplied) and delete_vacation calls, no two stored intervals of
\* the same employee and type overlap or are exactly one day apart.
C1_NoOverlapNoAdjacency ==
    \A a, b \in vacations :
        (a # b /\ a.employee_id = b.employee_id /\ a.type = b.type) =>
            /\ ~Overlaps(a.start_date, a.end_date, b.start_date, b.end_date)
            /\ ~OneDayApart(a.start_date, a.end_date, b.start_date, b.end_date)

(* ---------------------------------------------------------------------- *)
(* C2                                                                     *)
(* ---------------------------------------------------------------------- *)
\* C2: after an update_vacation that completed with a non-empty mergeable set M,
\* exactly one stored interval of that employee and type covers the merged range
\* [min(start, M starts), max(end, M ends)], every member of M other than the
\* surviving record is gone, and the updated record is still stored (also when
\* it is itself a member of M).
C2_UpdateMergeKeepsOneInterval ==
    (Completed(last, "update_vacation") /\ last.M # <<>>) =>
        LET lo == MinOf({last.start_date} \cup {m.start_date : m \in Range(last.M)})
            hi == MaxOf({last.end_date} \cup {m.end_date : m \in Range(last.M)})
        IN  /\ Cardinality({v \in vacations :
                    /\ v.employee_id = last.employee_id
                    /\ v.type = last.type
                    /\ v.start_date <= lo
                    /\ v.end_date >= hi}) = 1
            /\ \A m \in Range(last.M) :
                    m.id # last.vacation_id => m.id \notin Ids(vacations)
            /\ last.vacation_id \in Ids(vacations)

(* ---------------------------------------------------------------------- *)
(* C3                                                                     *)
(* ---------------------------------------------------------------------- *)
\* C3: a create_vacation whose mergeable list M (ascending by start) is not empty
\* deletes every member of M, creates exactly one new interval
\* (employee, type, min(start, M[0].start), max(end, M[last].end)), returns it,
\* and leaves every stored interval outside M unchanged.
C3_CreateMerges ==
    [][ (Completed(last', "create_vacation") /\ last'.M # <<>>) =>
            LET M == last'.M
                added == vacations' \ vacations
            IN  /\ Range(M) \subseteq vacations
                /\ vacations \ vacations' = Range(M)
                /\ Cardinality(added) = 1
                /\ \A n \in added :
                    /\ n.id \notin Ids(vacations)
                    /\ n.employee_id = last'.employee_id
                    /\ n.type = last'.type
                    /\ n.start_date = min(last'.start_date, M[1].start_date)
                    /\ n.end_date = max(last'.end_date, M[Len(M)].end_date)
                /\ last'.ret = added ]_vars

\* C3 happens: a create has absorbed two stored intervals into one
C3_Witness ==
    /\ Completed(last, "create_vacation")
    /\ Len(last.M) = 2
    /\ last.M[1].start_date < last.M[2].start_date
    /\ \E v \in last.ret : v \in vacations /\ v.start_date < last.start_date
                           /\ v.end_date > last.end_date

(* ---------------------------------------------------------------------- *)
(* C4                                                                     *)
(* ---------------------------------------------------------------------- *)
\* C4: a create_vacation with no stored interval of that employee and type
\* overlapping the candidate or one day apart from it stores exactly one more
\* interval, with the candidate's employee, type, start and end, returns it,
\* and leaves every stored interval unchanged.
C4_CreateAlone ==
    [][ (/\ Completed(last', "create_vacation")
         /\ MergeableSet(vacations, last'.employee_id, last'.type,
                         last'.start_date, last'.end_date) = {}) =>
            LET added == vacations' \ vacations
            IN  /\ vacations \subseteq vacations'
                /\ Cardinality(added) = 1
                /\ \A n \in added :
                    /\ n.id \notin Ids(vacations)
                    /\ n.employee_id = last'.employee_id
                    /\ n.type = last'.type
                    /\ n.start_date = last'.start_date
                    /\ n.end_date = last'.end_date
                /\ last'.ret = added ]_vars

\* C4 happens: the candidate was stored next to an interval of the same
\* employee and type that lies two days away, and both are stored
C4_Witness ==
    /\ Completed(last, "create_vacation")
    /\ last.M = <<>>
    /\ last.ret \subseteq vacations
    /\ \E n \in last.ret, v \in vacations :
        /\ v.id # n.id
        /\ v.employee_id = n.employee_id
        /\ v.type = n.type
        /\ n.start_date = last.start_date
        /\ n.end_date = last.end_date
        /\ v.end_date + 2 = n.start_date

(* ---------------------------------------------------------------------- *)
(* C5                                                                     *)
(* ---------------------------------------------------------------------- *)
\* C5: the list get_overlapping_or_contiguous(employee, type, start, end) gives
\* to a call holds, once each, exactly the stored intervals of that employee
\* and type that overlap [start, end] or are one day apart from it, in
\* ascending order of start date.
C5_QueryExactAndSorted ==
    [][ (Completed(last', "create_vacation") \/ Completed(last', "update_vacation")) =>
            LET M == last'.M
            IN  /\ Range(M) = MergeableSet(vacations, last'.employee_id, last'.type,
                                           last'.start_date, last'.end_date)
                /\ Len(M) = Cardinality(Range(M))
                /\ \A i, j \in 1..Len(M) :
                        i < j => M[i].start_date <= M[j].start_date ]_vars

\* C5 happens: the query gave two intervals, in order, and left out a stored
\* interval of the other type that overlaps the range asked for
C5_Witness ==
    /\ (Completed(last, "create_vacation") \/ Completed(last, "update_vacation"))
    /\ Len(last.M) = 2
    /\ last.M[1].start_date < last.M[2].start_date
    /\ \E v \in vacations :
        /\ v.employee_id = last.employee_id
        /\ v.type # last.type
        /\ Overlaps(v.start_date, v.end_date, last.start_date, last.end_date)

(* ---------------------------------------------------------------------- *)
(* C6                                                                     *)
(* ---------------------------------------------------------------------- *)
\* the type of the candidate of a call: the type supplied, else the stored type
\* of the record addressed
CandidateType(call, vacs) ==
    IF call.type # None THEN call.type
    ELSE (CHOOSE v \in vacs : v.id = call.vacation_id).type

\* C6: a create_vacation or update_vacation whose candidate has type T leaves
\* every stored interval of the other type as it is, except the record the
\* update addresses.
C6_TypeIsolation ==
    [][ (Completed(last', "create_vacation") \/ Completed(last', "update_vacation")) =>
            \A v \in vacations :
                (/\ v.type # CandidateType(last', vacations)
                 /\ (last'.op = "update_vacation" => v.id # last'.vacation_id)) =>
                    v \in vacations' ]_vars

\* C6 happens: a candidate was created over the dates of a stored interval of
\* the same employee and the other type, and both are stored
C6_Witness ==
    /\ Completed(last, "create_vacation")
    /\ \E n \in last.ret, v \in vacations :
        /\ n \in vacations
        /\ v.employee_id = n.employee_id
        /\ v.type # n.type
        /\ v.start_date < n.start_date
        /\ v.end_date > n.end_date

(* ---------------------------------------------------------------------- *)
(* C7                                                                     *)
(* ---------------------------------------------------------------------- *)
\* C7: an update_vacation that addresses a stored vacation of an existing
\* employee completes also when only some of type, start_date and end_date are
\* supplied (a TypeError is raised only for a call that left a date out); the
\* fields left out keep their stored values, and the mergeable set is the one
\* of the resolved candidate.
C7_PartialUpdateCompletes ==
    [][ last'.op = "update_vacation" =>
            /\ last'.status # "TypeError"
            /\ (last'.status = "ok" /\ last'.type = None) =>
                    /\ Range(last'.M) =
                         MergeableSet(vacations \ get_by_id(vacations, last'.vacation_id),
                                      last'.employee_id,
                                      CandidateType(last', vacations),
                                      last'.start_date, last'.end_date)
                    /\ \A v \in last'.ret : v.type = CandidateType(last', vacations)
      ]_vars

(* ---------------------------------------------------------------------- *)
(* C8                                                                     *)
(* ---------------------------------------------------------------------- *)
\* C8: an update_vacation whose mergeable list is empty applies the supplied
\* start, end and type to the record with the id addressed and to no other:
\* every other stored interval and the number of stored intervals are unchanged.
C8_UpdateAlone ==
    [][ (Completed(last', "update_vacation") /\ last'.M = <<>>) =>
            \E old \in vacations :
                LET new == [old EXCEPT
                        !.type = IF last'.type # None THEN last'.type ELSE @,
                        !.start_date = last'.start_date,
                        !.end_date = last'.end_date]
                IN  /\ old.id = last'.vacation_id
                    /\ vacations' = (vacations \ {old}) \cup {new}
                    /\ Cardinality(vacations') = Cardinality(vacations)
                    /\ last'.ret = {new} ]_vars

\* C8 happens: an update without merge has moved one record and changed its
\* type while another record is stored
C8_Witness ==
    /\ Completed(last, "update_vacation")
    /\ last.M = <<>>
    /\ last.type # None
    /\ Cardinality(vacations) = 2
    /\ \E n \in last.ret, v \in vacations :
        /\ n \in vacations
        /\ v.id # n.id
        /\ n.type = last.type
        /\ v.type # n.type
        /\ n.start_date = last.start_date
        /\ n.end_date = last.end_date

(* ---------------------------------------------------------------------- *)
(* C9                                                                     *)
(* ---------------------------------------------------------------------- *)
OwnerScopedOps ==
    {"create_vacation", "update_vacation", "delete_vacation",
     "get_vacations_by_employee_id"}

\* C9: create_vacation, update_vacation, delete_vacation and
\* get_vacations_by_employee_id called with the id of no employee fail with
\* "Employee not found" and leave the stored intervals as they were.
C9_UnknownOwnerFails ==
    [][ (last'.op \in OwnerScopedOps /\ last'.employee_id \notin employees) =>
            /\ last'.status = "Employee not found"
            /\ last'.ret = {}
            /\ vacations' = vacations ]_vars

\* C9 happens: a create for an unknown employee failed while intervals of
\* another employee are stored
C9_Witness ==
    /\ last.op = "create_vacation"
    /\ last.status = "Employee not found"
    /\ last.employee_id \notin employees
    /\ vacations # {}

(* ---------------------------------------------------------------------- *)
(* C10                                                                    *)
(* ---------------------------------------------------------------------- *)
\* C10: update_vacation for an existing employee with a vacation id that is not
\* the id of one of that employee's stored intervals fails with "Vacation not
\* found" and leaves the store unchanged.
C10_UnknownVacationFails ==
    [][ (/\ last'.op = "update_vacation"
         /\ last'.employee_id \in employees
         /\ ~\E v \in vacations :
                v.id = last'.vacation_id /\ v.employee_id = last'.employee_id) =>
            /\ last'.status = "Vacation not found"
            /\ last'.ret = {}
            /\ vacations' = vacations ]_vars

\* C10 happens: an update that addressed another employee's interval failed
C10_Witness ==
    /\ last.op = "update_vacation"
    /\ last.status = "Vacation not found"
    /\ last.employee_id \in employees
    /\ \E v \in vacations :
        v.id = last.vacation_id /\ v.employee_id # last.employee_id

(* ---------------------------------------------------------------------- *)
(* C11                                                                    *)
(* ---------------------------------------------------------------------- *)
\* C11: deleting an id that no stored interval has fails with "Vacation not
\* found" through delete_vacation of an existing employee, and returns nothing,
\* without error, through the store's delete; the store is unchanged in both
\* cases.  The store's delete of an id that is stored removes exactly that
\* record, returns it, and leaves all other records unchanged.
C11_DeleteUnknownAndKnown ==
    [][ /\ (/\ last'.op = "delete_vacation"
            /\ last'.employee_id \in employees
            /\ last'.vacation_id \notin Ids(vacations)) =>
                /\ last'.status = "Vacation not found"
                /\ vacations' = vacations
        /\ (last'.op = "delete" /\ last'.vacation_id \notin Ids(vacations)) =>
                /\ last'.status = "ok"
                /\ last'.ret = {}
                /\ vacations' = vacations
        /\ (last'.op = "delete" /\ last'.vacation_id \in Ids(vacations)) =>
                /\ last'.status = "ok"
                /\ last'.ret = {v \in vacations : v.id = last'.vacation_id}
                /\ vacations' = vacations \ last'.ret ]_vars

\* C11 happens: the store's delete was given an id that is not stored, while
\* another record is stored
C11_Witness ==
    /\ last.op = "delete"
    /\ last.ret = {}
    /\ last.vacation_id \notin Ids(vacations)
    /\ vacations # {}

(* ---------------------------------------------------------------------- *)
(* C12                                                                    *)
(* ---------------------------------------------------------------------- *)
\* C12: delete_vacation(employee A, vacation_id) where vacation_id is the id of
\* an interval stored for another employee B fails with "Vacation not found",
\* and the interval of B remains stored.
C12_DeleteOtherOwnersVacationFails ==
    [][ (/\ last'.op = "delete_vacation"
         /\ last'.employee_id \in employees
         /\ \E v \in vacations :
                v.id = last'.vacation_id /\ v.employee_id # last'.employee_id) =>
            /\ last'.status = "Vacation not found"
            /\ vacations' = vacations ]_vars

(* ---------------------------------------------------------------------- *)
(* C15                                                                    *)
(* ---------------------------------------------------------------------- *)
\* the stored ranges: the rows without their ids
Tuples(vacs) ==
    {<<v.employee_id, v.type, v.start_date, v.end_date>> : v \in vacs}

\* the stored intervals of (employee_id, type) that cover [start_date, end_date]
Covering(vacs, employee_id, type, start_date, end_date) ==
    {v \in vacs :
        /\ v.employee_id = employee_id
        /\ v.type = type
        /\ v.start_date <= start_date
        /\ v.end_date >= end_date}

\* C15: a create_vacation whose candidate is already fully covered by a stored
\* interval of the same employee and type leaves the set of stored
\* (employee, type, start, end) tuples unchanged and returns the covering range.
C15_CreateCoveredIsIdempotent ==
    [][ (/\ Completed(last', "create_vacation")
         /\ Covering(vacations, last'.employee_id, last'.type,
                     last'.start_date, last'.end_date) # {}) =>
            /\ Tuples(vacations') = Tuples(vacations)
            /\ \E n \in last'.ret :
               \E v \in Covering(vacations, last'.employee_id, last'.type,
                                 last'.start_date, last'.end_date) :
                    n.start_date = v.start_date /\ n.end_date = v.end_date ]_vars

(* ---------------------------------------------------------------------- *)
(* C16                                                                    *)
(* ---------------------------------------------------------------------- *)
\* C16: every stored interval has start_date <= end_date after every step, and
\* an update_vacation that leaves a date out (so that its range is not checked
\* when the request is built) fails without any delete or write.
C16_StoredRangesAreOrdered ==
    [][ /\ \A v \in vacations' : v.start_date <= v.end_date
        /\ (last'.op = "update_vacation" /\ last'.status = "TypeError") =>
                vacations' = vacations ]_vars

\* C16 happens: an update that left a date out failed while two intervals,
\* one of them longer than a day, are stored
C16_Witness ==
    /\ last.op = "update_vacation"
    /\ last.status = "TypeError"
    /\ Cardinality(vacations) = 2
    /\ \E v \in vacations : v.start_date < v.end_date /\ v.id = last.vacation_id

(* ---------------------------------------------------------------------- *)
(* C17                                                                    *)
(* ---------------------------------------------------------------------- *)
\* C17: update_vacation never changes the id of a stored record, and whenever
\* it completes, with or without a merge, it returns a stored interval whose
\* id is the vacation_id addressed.
C17_UpdateKeepsAndReturnsTheRecord ==
    [][ last'.op = "update_vacation" =>
            /\ Ids(vacations') \subseteq Ids(vacations)
            /\ last'.status = "ok" =>
                    \E n \in last'.ret :
                        n.id = last'.vacation_id /\ n \in vacations' ]_vars

(* ---------------------------------------------------------------------- *)
(* C18                                                                    *)
(* ---------------------------------------------------------------------- *)
\* C18: in every reachable state and for every candidate, the bounds the code
\* computes (min of the candidate's start and the first listed start, max of
\* the candidate's end and the last listed end) are the min and max over the
\* whole mergeable set and the candidate.
C18_FirstLastIsFullReduction ==
    \A employee_id \in employees, type \in VacationTypes,
       start_date \in Days, end_date \in Days :
        VacationBase(type, start_date, end_date) =>
            \A M \in get_overlapping_or_contiguous(vacations, employee_id, type,
                                                   start_date, end_date) :
                M # <<>> =>
                    /\ new_start(start_date, M) =
                        MinOf({start_date} \cup {m.start_date : m \in Range(M)})
                    /\ new_end(end_date, M) =
                        MaxOf({end_date} \cup {m.end_date : m \in Range(M)})

(* ---------------------------------------------------------------------- *)
(* C19                                                                    *)
(* ---------------------------------------------------------------------- *)
\* the calendar days covered by the stored intervals of (employee_id, type)
Covered(vacs, employee_id, type) ==
    {day \in Days :
        \E v \in vacs :
            /\ v.employee_id = employee_id
            /\ v.type = type
            /\ v.start_date <= day
            /\ day <= v.end_date}

\* C19: after a create_vacation(employee, type, start, end) that completed, the
\* days covered for that (employee, type) are the days covered before together
\* with the days of [start, end], and the days covered for every other
\* (employee, type) are unchanged.
C19_CreateKeepsCoveredDays ==
    [][ Completed(last', "create_vacation") =>
            \A employee_id \in employees, type \in VacationTypes :
                Covered(vacations', employee_id, type) =
                    IF employee_id = last'.employee_id /\ type = last'.type
                    THEN Covered(vacations, employee_id, type)
                            \cup (last'.start_date .. last'.end_date)
                    ELSE Covered(vacations, employee_id, type) ]_vars

(* ---------------------------------------------------------------------- *)
(* C13                                                                    *)
(* ---------------------------------------------------------------------- *)
\* the days of the rows of its list that request r has gone past in its
\* delete loop
DaysDeleted(r) ==
    {day \in Days :
        \E k \in 1..(r.i - 1) :
            r.M[k].start_date <= day /\ day <= r.M[k].end_date}

\* C13: a merging create_vacation or update_vacation is applied as one atomic
\* unit: in no committed state is a request between the deletion of rows of
\* its mergeable set and the write of the merged interval with days of those
\* rows covered by no stored interval of that employee and type.
C13_MergeIsOneAtomicUnit ==
    \A w \in Workers :
        workers[w].pc \in {"delete", "write"} =>
            DaysDeleted(workers[w]) \subseteq
                Covered(vacations, workers[w].employee_id, workers[w].type)

(* ---------------------------------------------------------------------- *)
(* C14                                                                    *)
(* ---------------------------------------------------------------------- *)
\* the tables one whole create_vacation may leave (the table itself when it
\* raises)
create_vacation_result(vacs, emps, id, employee_id, type, start_date, end_date) ==
    IF ~get_employee(emps, employee_id)
    THEN {vacs}
    ELSE {IF existing_vacations # <<>>
          THEN create(delete_each(vacs, existing_vacations), id, type,
                      new_start(start_date, existing_vacations),
                      new_end(end_date, existing_vacations), employee_id)
          ELSE create(vacs, id, type, start_date, end_date, employee_id)
          : existing_vacations \in
                get_overlapping_or_contiguous(vacs, employee_id, type,
                                              start_date, end_date)}

\* the tables one whole update_vacation may leave (the table itself when it
\* raises)
update_vacation_result(vacs, emps, employee_id, vacation_id, type, start_date, end_date) ==
    IF \/ ~get_employee(emps, employee_id)
       \/ find_vacation(vacs, employee_id, vacation_id) = {}
       \/ QueryRaises(start_date, end_date)
    THEN {vacs}
    ELSE {IF existing_vacations # <<>>
          THEN patch(delete_each(vacs, existing_vacations), vacation_id,
                     [type |-> type,
                      start_date |-> new_start(start_date, existing_vacations),
                      end_date |-> new_end(end_date, existing_vacations)])
          ELSE patch(vacs, vacation_id,
                     [type |-> type, start_date |-> start_date, end_date |-> end_date])
          : existing_vacations \in
                get_overlapping_or_contiguous(vacs, employee_id, type,
                                              start_date, end_date)}

\* the tables the request r may leave when it runs alone from vacs
request_result(vacs, emps, id, r) ==
    IF r.op = "create_vacation"
    THEN create_vacation_result(vacs, emps, id, r.employee_id, r.type,
                                r.start_date, r.end_date)
    ELSE update_vacation_result(vacs, emps, r.employee_id, r.vacation_id, r.type,
                                r.start_date, r.end_date)

\* the tables left by running request r1 and then request r2 from vacs
OneAfterTheOther(vacs, emps, id, r1, r2) ==
    UNION {request_result(v1, emps, id + 1, r2) :
              v1 \in request_result(vacs, emps, id, r1)}

\* the two requests address the same employee and the same vacation type
SameEmployeeAndType ==
    \A a, b \in Workers :
        /\ workers[a].employee_id = workers[b].employee_id
        /\ workers[a].type = workers[b].type
        /\ workers[a].type \in VacationTypes

\* C14: two concurrent create_vacation / update_vacation requests for the same
\* employee and type are serialized: once both have completed, the stored
\* ranges are those left by running the two requests one after the other, in
\* one of the two orders, from the table the first of them found.
C14_ConcurrentRequestsAreSerialized ==
    (AllDone /\ SameEmployeeAndType) =>
        \E a, b \in Workers :
            /\ a # b
            /\ \E final \in OneAfterTheOther(base.vacations, employees, base.nextId,
                                             workers[a], workers[b]) :
                   /\ Tuples(final) = Tuples(vacations)
                   /\ Cardinality(final) = Cardinality(vacations)

====
